---- MODULE Spec2Model ----
(***************************************************************************)
(* channels.views: the Publisher (debounce in front of the publish        *)
(* primitive) and the View (object cache + materialized views) of        *)
(* src/channels/views.py, over a Redis-like store.                        *)
(*                                                                         *)
(* Every handler is cut at its calls to the store, the debounce cache and  *)
(* the publish primitive: one action per call, so that a failure of one    *)
(* call and the interleaving of several callers are behaviours of the      *)
(* model.  A caller p is at pc[p]; its arguments are call[p], its local    *)
(* variables loc[p].                                                       *)
(***************************************************************************)
EXTENDS Integers, Sequences, FiniteSets, TLC

VARIABLES
    hashes,   \* store: object key -> hash (field -> string), <<>> when the key is absent
    zsets,    \* store: view key -> sorted set (member id -> score), <<>> when absent
    lru,      \* Publisher.lru: channel key -> timestamp, Nil when there is no entry
    clock,    \* what time.time() returns
    pc,       \* caller -> the call it is about to make
    call,     \* caller -> the operation it runs and its arguments
    loc,      \* caller -> its local variables and its outcome
    sent,     \* caller -> messages its running operation handed to client.publish
    created,  \* history: the view keys that have ever existed in the store
    lastFwd,  \* history: channel key -> time of the last forward since the last eviction
    base,     \* history: the score of the watched member in the initial state, or
              \* the store as the first of two equal calls in a row has left it
    quiet     \* history: channel key -> the time of the first publish that was
              \* suppressed since the entry of the key was last written or evicted

vars == <<hashes, zsets, lru, clock, pc, call, loc, sent, created, lastFwd, base, quiet>>

-----------------------------------------------------------------------------
(* Bounds of the model *)

MaxTime == 6      \* time.time() ranges over 1..MaxTime
NumProcs == 2     \* concurrent callers of incr_in_set in the concurrent specification
MaxId == 3        \* object ids 1..MaxId
MaxCount == 2     \* no counter field or score is incremented beyond MaxCount

(* Program constants *)

Cooldown == 3     \* views.py:24, (val + 3) < now
Version == 1      \* views.py:32, version=1

Nil == -1         \* no timestamp, no number

\* the callers: the reader of the concurrent specification and the incrementers;
\* the sequential specifications run caller 1
Reader == 0
Incrementers == 1 .. NumProcs
Procs == {Reader} \cup Incrementers

-----------------------------------------------------------------------------
(* Python values.  A str holds its text; str() of an int is its decimal    *)
(* text, which is what the store keeps and returns.                        *)

PyInt(n) == [t |-> "int", n |-> n, s |-> ""]
PyStr(s) == [t |-> "str", n |-> 0, s |-> s]

\* str(v), the conversion redis-py applies to every argument it sends
ToStr(v) == IF v.t = "int" THEN PyStr(ToString(v.n)) ELSE v

\* '%s' % v
Fmt(v) == ToStr(v).s

\* None or a dict (field -> value)
PyNone == [isNone |-> TRUE, d |-> <<>>]
Dict(d) == [isNone |-> FALSE, d |-> d]

\* Python truthiness of a timestamp-or-None (views.py:24, `if val`)
Truthy(val) == val # Nil /\ val # 0

-----------------------------------------------------------------------------
(* Key derivation, views.py:189-203 *)

Name == "posts"                                    \* views.py:205
Ns == "view:" \o ToString(Version) \o ":" \o Name       \* views.py:34
Pns == "channel:" \o ToString(Version) \o ": " \o Name  \* views.py:35

NoKey == ""   \* _key=None (and every other falsy keybase)

\* the order Python gives the kwarg names of the model
NameRank == [author |-> 1, category |-> 2]

RECURSIVE SortPairs(_)
\* sorted(kwargs.items()): kw is a set of <<name, value>> pairs with distinct names
SortPairs(kw) ==
    IF kw = {} THEN <<>>
    ELSE LET m == CHOOSE x \in kw : \A y \in kw : NameRank[x[1]] <= NameRank[y[1]]
         IN  <<m>> \o SortPairs(kw \ {m})

RECURSIVE Join(_, _)
\* sep.join(strs)
Join(sep, strs) ==
    IF strs = <<>> THEN ""
    ELSE IF Len(strs) = 1 THEN strs[1]
    ELSE strs[1] \o sep \o Join(sep, Tail(strs))

\* a get_key that joins the kwargs in the order of the call
get_key_in_call_order(keybase, kwseq) ==
    LET kwarg_str == Join("&", [i \in DOMAIN kwseq |-> kwseq[i][1] \o "=" \o Fmt(kwseq[i][2])])
        kb == IF keybase # NoKey THEN Ns \o ":" \o keybase ELSE Ns
    IN  kb \o ":" \o kwarg_str

\* View.get_key; kwseq is the kwargs in the order of the call
get_key(keybase, kwseq) ==
    LET items == SortPairs({kwseq[i] : i \in DOMAIN kwseq})
        kwarg_str == Join("&", [i \in DOMAIN items |-> items[i][1] \o "=" \o Fmt(items[i][2])])
        kb == IF keybase # NoKey THEN Ns \o ":" \o keybase ELSE Ns
    IN  kb \o ":" \o kwarg_str

get_channel_key(key) == Pns \o ":" \o key

get_obj_key(id) == Ns \o ":objects:" \o Fmt(PyInt(id))

-----------------------------------------------------------------------------
(* The store's commands, as the client library performs them *)

\* HMSET key mapping: sets the given fields, keeps the others
hmset(h, data) ==
    [f \in DOMAIN h \cup DOMAIN data |-> IF f \in DOMAIN data THEN ToStr(data[f]) ELSE h[f]]

\* the integer a string is the decimal text of, Nil when it is none
ParseInt(s) ==
    LET Decimal == 0 .. (MaxCount + MaxId + 1)   \* the numbers the model writes
    IN  IF \E n \in Decimal : ToString(n) = s
        THEN CHOOSE n \in Decimal : ToString(n) = s
        ELSE Nil

\* ZADD key score member: adds the member or overwrites its score; float(score)
\* of the integer scores of the model is the same number
zadd(z, id, score) ==
    [m \in DOMAIN z \cup {id} |-> IF m = id THEN score ELSE z[m]]

\* the score ZINCRBY key delta member leaves and returns
zincrby_score(z, id, delta) == IF id \in DOMAIN z THEN z[id] + delta ELSE delta

\* ZREM key member; a sorted set without members is no key any more
zrem(z, id) == [m \in DOMAIN z \ {id} |-> z[m]]

\* EXISTS key
exists(z) == DOMAIN z # {}

\* (score, member) of x is before that of y in the sorted set z
Before(z, x, y) == z[x] < z[y] \/ (z[x] = z[y] /\ x < y)

RECURSIVE Ascending(_)
\* the members by (score, member): the order of ZRANGE; the members before some
\* member m, then m, then the members after it
Ascending(z) ==
    IF DOMAIN z = {} THEN <<>>
    ELSE LET m == CHOOSE x \in DOMAIN z : TRUE
             lo == {y \in DOMAIN z : Before(z, y, m)}
             hi == {y \in DOMAIN z : Before(z, m, y)}
         IN  Ascending([y \in lo |-> z[y]]) \o <<m>> \o Ascending([y \in hi |-> z[y]])

Reverse(s) == [i \in DOMAIN s |-> s[Len(s) + 1 - i]]

\* the elements of s at the ranks start..stop, both inclusive and counted from 0,
\* a negative rank counting from the end
Slice(s, start, stop) ==
    LET n == Len(s)
        a0 == IF start < 0 THEN n + start ELSE start
        a == IF a0 < 0 THEN 0 ELSE a0
        b0 == IF stop < 0 THEN n + stop ELSE stop
        b == IF b0 >= n THEN n - 1 ELSE b0
    IN  IF a > b \/ a >= n THEN <<>> ELSE SubSeq(s, a + 1, b + 1)

zrange(z, start, stop) == Slice(Ascending(z), start, stop)
zrevrange(z, start, stop) == Slice(Reverse(Ascending(z)), start, stop)

-----------------------------------------------------------------------------
(* Callers *)

NoMsg == [event |-> "", score |-> Nil, data |-> PyNone]

\* json_data of views.py:64-68 and 82-86
Event(score, data) == [event |-> "add", score |-> score, data |-> data]

\* what an operation returns
RNone == [k |-> "None"]
RBool(b) == [k |-> "bool", b |-> b]
RNum(n) == [k |-> "num", n |-> n]
RList(l) == [k |-> "list", l |-> l]
RDict(d) == [k |-> "dict", d |-> d]
RStr(s) == [k |-> "str", s |-> s]

NoCall ==
    [op |-> "idle", id |-> Nil, data |-> PyNone, score |-> Nil, keybase |-> NoKey,
     kwargs |-> <<>>, offset |-> 0, limit |-> -1, desc |-> TRUE, field |-> "",
     amount |-> 0, key |-> "", value |-> NoMsg, query |-> ""]

NoLoc ==
    [key |-> "", id |-> Nil, score |-> Nil, data |-> PyNone, chan |-> "", msg |-> NoMsg,
     now |-> Nil, val |-> Nil, ids |-> <<>>, ret |-> RNone, published |-> Nil,
     prevFwd |-> Nil, did |-> <<>>, err |-> "", i |-> 0, n |-> 0, results |-> <<>>,
     again |-> FALSE]

\* l with one more call on the record of the calls the operation has made
Did(l, what) == [l EXCEPT !.did = Append(@, what)]

\* the calls of the View and of the Publisher, with the defaults of their signatures
CallAdd(data, score, kb, kw) ==
    [NoCall EXCEPT !.op = "add", !.data = Dict(data), !.id = data["id"].n,
                   !.score = score, !.keybase = kb, !.kwargs = kw]
CallAddToSet(id, score, data, kb, kw) ==
    [NoCall EXCEPT !.op = "add_to_set", !.id = id, !.score = score, !.data = data,
                   !.keybase = kb, !.kwargs = kw]
CallIncrInSet(id, score, data, kb, kw) ==
    [NoCall EXCEPT !.op = "incr_in_set", !.id = id, !.score = score, !.data = data,
                   !.keybase = kb, !.kwargs = kw]
CallRemove(data, kb, kw) ==
    [NoCall EXCEPT !.op = "remove", !.data = Dict(data), !.id = data["id"].n,
                   !.keybase = kb, !.kwargs = kw]
CallRemoveFromSet(id, kb, kw) ==
    [NoCall EXCEPT !.op = "remove_from_set", !.id = id, !.keybase = kb, !.kwargs = kw]
CallIncrCounter(id, field, amount) ==
    [NoCall EXCEPT !.op = "incr_counter", !.id = id, !.field = field, !.amount = amount]
CallGet(id) == [NoCall EXCEPT !.op = "get", !.id = id]
CallList(offset, limit, desc, kb, kw) ==
    [NoCall EXCEPT !.op = "list", !.offset = offset, !.limit = limit, !.desc = desc,
                   !.keybase = kb, !.kwargs = kw]
CallSearch(query, field, limit, desc, kb, kw) ==
    [NoCall EXCEPT !.op = "search", !.query = query, !.field = field, !.limit = limit,
                   !.desc = desc, !.keybase = kb, !.kwargs = kw]
CallGetKey(kb, kw) == [NoCall EXCEPT !.op = "get_key", !.keybase = kb, !.kwargs = kw]
CallPublish(key, value) == [NoCall EXCEPT !.op = "publish", !.key = key, !.value = value]

\* the first call an operation makes
Entry(op) ==
    CASE op = "add" -> "add_hmset"
      [] op = "add_to_set" -> "zadd"
      [] op = "incr_in_set" -> "zincrby"
      [] op = "remove" -> "remove_zrem"
      [] op = "remove_from_set" -> "zrem"
      [] op = "incr_counter" -> "hincrby"
      [] op = "get" -> "hgetall"
      [] op = "list" -> "list_range"
      [] op = "search" -> "search_loop"
      [] op = "get_key" -> "get_key"
      [] op = "publish" -> "pub_get"

\* the calls that go to the store or to the publish primitive over the network
StoreCalls ==
    {"add_hmset", "zadd", "zincrby", "set_get", "remove_zrem", "remove_del", "zrem",
     "hincrby", "hgetall", "list_range", "list_exists", "list_map", "pub_send"}

\* the calls that would count beyond MaxCount are left out of the model
WithinCount(c) ==
    /\ c.op = "incr_counter" =>
           LET h == hashes[get_obj_key(c.id)]
           IN  c.field \in DOMAIN h => ParseInt(h[c.field].s) + c.amount <= MaxCount
    /\ c.op = "incr_in_set" =>
           zincrby_score(zsets[get_key(c.keybase, c.kwargs)], c.id, c.score) <= MaxCount

\* caller p starts operation c
Begin(p, c) ==
    /\ pc[p] = "idle"
    /\ pc' = [pc EXCEPT ![p] = Entry(c.op)]
    /\ call' = [call EXCEPT ![p] = c]
    /\ loc' = [loc EXCEPT ![p] = [NoLoc EXCEPT !.id = c.id, !.data = c.data,
                                                !.chan = c.key, !.msg = c.value]]
    /\ sent' = [sent EXCEPT ![p] = <<>>]
    /\ UNCHANGED <<hashes, zsets, lru, clock, created, lastFwd, base, quiet>>

\* the operation of p has returned or raised; its caller goes on
Return(p) ==
    /\ pc[p] = "done"
    /\ pc' = [pc EXCEPT ![p] = "idle"]
    /\ call' = [call EXCEPT ![p] = NoCall]
    /\ loc' = [loc EXCEPT ![p] = NoLoc]
    /\ sent' = [sent EXCEPT ![p] = <<>>]
    /\ UNCHANGED <<hashes, zsets, lru, clock, created, lastFwd, base, quiet>>

\* the store is unreachable: the call p is about to make raises, nothing catches it
Fail(p) ==
    /\ pc[p] \in StoreCalls
    /\ pc' = [pc EXCEPT ![p] = "done"]
    /\ loc' = [loc EXCEPT ![p].err = "TransportError"]
    /\ UNCHANGED <<hashes, zsets, lru, clock, call, sent, created, lastFwd, base, quiet>>

-----------------------------------------------------------------------------
(* Publisher.publish, views.py:21-28 *)

\* LRUCache.get / LRUCache.put
lru_get(cache, key) == cache[key]
lru_put(cache, key, now) == [cache EXCEPT ![key] = now]

\* a debounce that drops the publish while the cooldown still runs
StaleWhileCooling(val, now) == Truthy(val) /\ now < (val + Cooldown)

\* views.py:24, the publish is dropped
Stale(val, now) == Truthy(val) /\ (val + Cooldown) < now

\* a publish that is dropped and still records its time in the debounce cache
PubGetRefreshing(p) ==
    /\ pc[p] = "pub_get"
    /\ LET now == clock
           val == lru_get(lru, loc[p].chan)
       IN  IF Stale(val, now)
           THEN /\ pc' = [pc EXCEPT ![p] = "done"]
                /\ loc' = [loc EXCEPT ![p] = Did([@ EXCEPT !.now = now, !.val = val,
                                      !.published = 0,
                                      !.ret = IF call[p].op = "publish"
                                              THEN RBool(FALSE) ELSE RNone], "lru_get")]
                /\ lru' = lru_put(lru, loc[p].chan, now)
                /\ quiet' = [quiet EXCEPT ![loc[p].chan] = IF @ = Nil THEN now ELSE @]
           ELSE /\ pc' = [pc EXCEPT ![p] = "pub_put"]
                /\ loc' = [loc EXCEPT ![p] = Did([@ EXCEPT !.now = now, !.val = val],
                                                  "lru_get")]
                /\ UNCHANGED <<lru, quiet>>
    /\ UNCHANGED <<hashes, zsets, clock, call, sent, created, lastFwd, base>>

\* views.py:22-25
PubGet(p) ==
    /\ pc[p] = "pub_get"
    /\ LET now == clock
           val == lru_get(lru, loc[p].chan)
       IN  IF Stale(val, now)
           THEN /\ pc' = [pc EXCEPT ![p] = "done"]
                /\ loc' = [loc EXCEPT ![p] = Did([@ EXCEPT !.now = now, !.val = val,
                                      !.published = 0,
                                      !.ret = IF call[p].op = "publish"
                                              THEN RBool(FALSE) ELSE RNone], "lru_get")]
                /\ quiet' = [quiet EXCEPT ![loc[p].chan] = IF @ = Nil THEN now ELSE @]
           ELSE /\ pc' = [pc EXCEPT ![p] = "pub_put"]
                /\ loc' = [loc EXCEPT ![p] = Did([@ EXCEPT !.now = now, !.val = val],
                                                  "lru_get")]
                /\ UNCHANGED quiet
    /\ UNCHANGED <<hashes, zsets, lru, clock, call, sent, created, lastFwd, base>>

\* a publish that goes on to the forward without having recorded its time
PubPutDeferred(p) ==
    /\ pc[p] = "pub_put"
    /\ pc' = [pc EXCEPT ![p] = "pub_send"]
    /\ loc' = [loc EXCEPT ![p] = Did(@, "lru_put")]
    /\ UNCHANGED <<hashes, zsets, lru, clock, call, sent, created, lastFwd, base, quiet>>

\* views.py:26
PubPut(p) ==
    /\ pc[p] = "pub_put"
    /\ lru' = lru_put(lru, loc[p].chan, loc[p].now)
    /\ pc' = [pc EXCEPT ![p] = "pub_send"]
    /\ loc' = [loc EXCEPT ![p] = Did(@, "lru_put")]
    /\ quiet' = [quiet EXCEPT ![loc[p].chan] = Nil]
    /\ UNCHANGED <<hashes, zsets, clock, call, sent, created, lastFwd, base>>

\* views.py:27-28
PubSend(p) ==
    /\ pc[p] = "pub_send"
    /\ sent' = [sent EXCEPT ![p] = Append(@, [chan |-> loc[p].chan, msg |-> loc[p].msg])]
    /\ lastFwd' = [lastFwd EXCEPT ![loc[p].chan] = loc[p].now]
    /\ pc' = [pc EXCEPT ![p] = "done"]
    /\ loc' = [loc EXCEPT ![p] = Did([@ EXCEPT !.published = 1,
                          !.prevFwd = lastFwd[loc[p].chan],
                          !.ret = IF call[p].op = "publish" THEN RBool(TRUE) ELSE RNone],
                          "publish")]
    /\ UNCHANGED <<hashes, zsets, lru, clock, call, created, base, quiet>>

\* time passes
Tick ==
    /\ clock < MaxTime
    /\ clock' = clock + 1
    /\ UNCHANGED <<hashes, zsets, lru, pc, call, loc, sent, created, lastFwd, base, quiet>>

\* the debounce cache drops the entry of channel k (capacity, expiry); it does so
\* inside its own get and put, never between a caller's put and that caller's return
Evict(k) ==
    /\ lru[k] # Nil
    /\ \A p \in Procs : pc[p] \notin {"pub_put", "pub_send", "done"}
    /\ lru' = [lru EXCEPT ![k] = Nil]
    /\ lastFwd' = [lastFwd EXCEPT ![k] = Nil]
    /\ quiet' = [quiet EXCEPT ![k] = Nil]
    /\ UNCHANGED <<hashes, zsets, clock, pc, call, loc, sent, created, base>>

-----------------------------------------------------------------------------
(* View, views.py:39-162 *)

\* the view key of the call of p, views.py:56, 76, 99, 106, 146
KeyOf(p) == get_key(call[p].keybase, call[p].kwargs)

\* views.py:189-197, get_key called by itself: no call to the store
GetKey(p) ==
    /\ pc[p] = "get_key"
    /\ pc' = [pc EXCEPT ![p] = "done"]
    /\ loc' = [loc EXCEPT ![p].ret = RStr(get_key(call[p].keybase, call[p].kwargs))]
    /\ UNCHANGED <<hashes, zsets, lru, clock, call, sent, created, lastFwd, base, quiet>>

\* View.get on the hash h of the object key: an empty result is None, views.py:115-118
get(h) == IF h = <<>> THEN PyNone ELSE Dict(h)

\* views.py:64-70 and 82-90: the event is built and handed to Publisher.publish
Notify(l, key, score, data) ==
    [l EXCEPT !.key = key, !.score = score, !.data = data,
              !.chan = get_channel_key(key), !.msg = Event(score, data)]


\* an add that goes on to the view without having written the object
AddHmsetSkipped(p) ==
    /\ pc[p] = "add_hmset"
    /\ pc' = [pc EXCEPT ![p] = "zadd"]
    /\ loc' = [loc EXCEPT ![p].did = Append(@, "hmset")]
    /\ UNCHANGED <<hashes, zsets, lru, clock, call, sent, created, lastFwd, base, quiet>>

\* views.py:47, the object goes to the shared object cache
AddHmset(p) ==
    /\ pc[p] = "add_hmset"
    /\ hashes' = [hashes EXCEPT ![get_obj_key(call[p].data.d["id"].n)] =
                                     hmset(@, call[p].data.d)]
    /\ pc' = [pc EXCEPT ![p] = "zadd"]
    /\ loc' = [loc EXCEPT ![p].did = Append(@, "hmset")]
    /\ UNCHANGED <<zsets, lru, clock, call, sent, created, lastFwd, base, quiet>>

\* an add_to_set that adds the score it is passed to the score the member has
ZaddAccumulates(p) ==
    /\ pc[p] = "zadd"
    /\ LET key == KeyOf(p)
           score == zincrby_score(zsets[key], loc[p].id, call[p].score)
       IN  /\ zsets' = [zsets EXCEPT ![key] = zadd(@, loc[p].id, score)]
           /\ created' = created \cup {key}
           /\ IF loc[p].data.isNone
              THEN /\ pc' = [pc EXCEPT ![p] = "set_get"]
                   /\ loc' = [loc EXCEPT ![p] = Did([@ EXCEPT !.key = key,
                                                    !.score = call[p].score], "zadd")]
              ELSE /\ pc' = [pc EXCEPT ![p] = "pub_get"]
                   /\ loc' = [loc EXCEPT ![p] =
                                 Did(Notify(@, key, call[p].score, @.data), "zadd")]
    /\ UNCHANGED <<hashes, lru, clock, call, sent, lastFwd, base, quiet>>

\* views.py:56-57 (and 59, 64-70 when the data was passed)
Zadd(p) ==
    /\ pc[p] = "zadd"
    /\ LET key == KeyOf(p)
       IN  /\ zsets' = [zsets EXCEPT ![key] = zadd(@, loc[p].id, call[p].score)]
           /\ created' = created \cup {key}
           /\ IF loc[p].data.isNone
              THEN /\ pc' = [pc EXCEPT ![p] = "set_get"]
                   /\ loc' = [loc EXCEPT ![p] = Did([@ EXCEPT !.key = key,
                                                    !.score = call[p].score], "zadd")]
              ELSE /\ pc' = [pc EXCEPT ![p] = "pub_get"]
                   /\ loc' = [loc EXCEPT ![p] =
                                 Did(Notify(@, key, call[p].score, @.data), "zadd")]
    /\ UNCHANGED <<hashes, lru, clock, call, sent, lastFwd, base, quiet>>

\* an increment that reads the score in one round trip and writes it in the next
ZincrbyReadThenWrite(p) ==
    /\ pc[p] = "zincrby"
    /\ LET key == KeyOf(p)
       IN  IF loc[p].score = Nil
           THEN /\ loc' = [loc EXCEPT ![p].score = zincrby_score(zsets[key], loc[p].id, 0)]
                /\ UNCHANGED <<zsets, created, pc>>
           ELSE LET score == loc[p].score + call[p].score
                IN  /\ zsets' = [zsets EXCEPT ![key] = zadd(@, loc[p].id, score)]
                    /\ created' = created \cup {key}
                    /\ IF loc[p].data.isNone
                       THEN /\ pc' = [pc EXCEPT ![p] = "set_get"]
                            /\ loc' = [loc EXCEPT ![p] = Did([@ EXCEPT !.key = key,
                                                             !.score = score], "zincrby")]
                       ELSE /\ pc' = [pc EXCEPT ![p] = "pub_get"]
                            /\ loc' = [loc EXCEPT ![p] =
                                          Did(Notify(@, key, score, @.data), "zincrby")]
    /\ UNCHANGED <<hashes, lru, clock, call, sent, lastFwd, base, quiet>>

\* an incr_in_set that increments the score and reports the amount it was passed
ZincrbyReportsDelta(p) ==
    /\ pc[p] = "zincrby"
    /\ LET key == KeyOf(p)
           score == zincrby_score(zsets[key], loc[p].id, call[p].score)
       IN  /\ zsets' = [zsets EXCEPT ![key] = zadd(@, loc[p].id, score)]
           /\ created' = created \cup {key}
           /\ IF loc[p].data.isNone
              THEN /\ pc' = [pc EXCEPT ![p] = "set_get"]
                   /\ loc' = [loc EXCEPT ![p] = Did([@ EXCEPT !.key = key,
                                                    !.score = call[p].score], "zincrby")]
              ELSE /\ pc' = [pc EXCEPT ![p] = "pub_get"]
                   /\ loc' = [loc EXCEPT ![p] =
                                 Did(Notify(@, key, call[p].score, @.data), "zincrby")]
    /\ UNCHANGED <<hashes, lru, clock, call, sent, lastFwd, base, quiet>>

\* views.py:76-77 (and 79, 82-90 when the data was passed)
Zincrby(p) ==
    /\ pc[p] = "zincrby"
    /\ LET key == KeyOf(p)
           score == zincrby_score(zsets[key], loc[p].id, call[p].score)
       IN  /\ zsets' = [zsets EXCEPT ![key] = zadd(@, loc[p].id, score)]
           /\ created' = created \cup {key}
           /\ IF loc[p].data.isNone
              THEN /\ pc' = [pc EXCEPT ![p] = "set_get"]
                   /\ loc' = [loc EXCEPT ![p] = Did([@ EXCEPT !.key = key,
                                                    !.score = score], "zincrby")]
              ELSE /\ pc' = [pc EXCEPT ![p] = "pub_get"]
                   /\ loc' = [loc EXCEPT ![p] = Did(Notify(@, key, score, @.data), "zincrby")]
    /\ UNCHANGED <<hashes, lru, clock, call, sent, lastFwd, base, quiet>>

\* an add_to_set or incr_in_set that sends no data when none was passed
SetGetNoRead(p) ==
    /\ pc[p] = "set_get"
    /\ loc' = [loc EXCEPT ![p] = Did(Notify(@, @.key, @.score, PyNone), "hgetall")]
    /\ pc' = [pc EXCEPT ![p] = "pub_get"]
    /\ UNCHANGED <<hashes, zsets, lru, clock, call, sent, created, lastFwd, base, quiet>>

\* views.py:59-60 and 79-80 (then 64-70, 82-90): _data = self.get(id)
SetGet(p) ==
    /\ pc[p] = "set_get"
    /\ loc' = [loc EXCEPT ![p] =
                  Did(Notify(@, @.key, @.score, get(hashes[get_obj_key(@.id)])), "hgetall")]
    /\ pc' = [pc EXCEPT ![p] = "pub_get"]
    /\ UNCHANGED <<hashes, zsets, lru, clock, call, sent, created, lastFwd, base, quiet>>

\* the store's removal of a key
remove_key(store, key) == [store EXCEPT ![key] = <<>>]

\* views.py:99
RemoveZrem(p) ==
    /\ pc[p] = "remove_zrem"
    /\ zsets' = [zsets EXCEPT ![KeyOf(p)] = zrem(@, call[p].data.d["id"].n)]
    /\ pc' = [pc EXCEPT ![p] = "remove_del"]
    /\ loc' = [loc EXCEPT ![p] = Did(@, "zrem")]
    /\ UNCHANGED <<hashes, lru, clock, call, sent, created, lastFwd, base, quiet>>

\* a remove that keeps the object while another view still has the id
RemoveDelUnlessReferenced(p) ==
    /\ pc[p] = "remove_del"
    /\ LET id == call[p].data.d["id"].n
       IN  hashes' = IF \E k \in DOMAIN zsets : id \in DOMAIN zsets[k]
                     THEN hashes
                     ELSE remove_key(hashes, get_obj_key(id))
    /\ pc' = [pc EXCEPT ![p] = "done"]
    /\ loc' = [loc EXCEPT ![p] = Did(@, "remove")]
    /\ UNCHANGED <<zsets, lru, clock, call, sent, created, lastFwd, base, quiet>>

\* views.py:100
RemoveDel(p) ==
    /\ pc[p] = "remove_del"
    /\ hashes' = remove_key(hashes, get_obj_key(call[p].data.d["id"].n))
    /\ pc' = [pc EXCEPT ![p] = "done"]
    /\ loc' = [loc EXCEPT ![p] = Did(@, "remove")]
    /\ UNCHANGED <<zsets, lru, clock, call, sent, created, lastFwd, base, quiet>>

\* a remove_from_set that deletes the object as remove does
RemoveFromSetAndObject(p) ==
    /\ pc[p] = "zrem"
    /\ zsets' = [zsets EXCEPT ![KeyOf(p)] = zrem(@, call[p].id)]
    /\ hashes' = remove_key(hashes, get_obj_key(call[p].id))
    /\ pc' = [pc EXCEPT ![p] = "done"]
    /\ loc' = [loc EXCEPT ![p] = Did(@, "zrem")]
    /\ UNCHANGED <<lru, clock, call, sent, created, lastFwd, base, quiet>>

\* views.py:106
RemoveFromSet(p) ==
    /\ pc[p] = "zrem"
    /\ zsets' = [zsets EXCEPT ![KeyOf(p)] = zrem(@, call[p].id)]
    /\ pc' = [pc EXCEPT ![p] = "done"]
    /\ loc' = [loc EXCEPT ![p] = Did(@, "zrem")]
    /\ UNCHANGED <<hashes, lru, clock, call, sent, created, lastFwd, base, quiet>>

\* views.py:109, HINCRBY: a missing field counts as 0, a field that is no integer
\* is an error of the store
IncrCounter(p) ==
    /\ pc[p] = "hincrby"
    /\ LET key == get_obj_key(call[p].id)
           f == call[p].field
           old == IF f \in DOMAIN hashes[key] THEN ParseInt(hashes[key][f].s) ELSE 0
       IN  IF old = Nil
           THEN /\ loc' = [loc EXCEPT ![p] = Did([@ EXCEPT !.err = "ResponseError"],
                                                  "hincrby")]
                /\ UNCHANGED hashes
           ELSE /\ hashes' = [hashes EXCEPT ![key] =
                                  hmset(@, [x \in {f} |-> PyInt(old + call[p].amount)])]
                /\ loc' = [loc EXCEPT ![p] = Did([@ EXCEPT !.ret =
                                                  RNum(old + call[p].amount)], "hincrby")]
    /\ pc' = [pc EXCEPT ![p] = "done"]
    /\ UNCHANGED <<zsets, lru, clock, call, sent, created, lastFwd, base, quiet>>

\* views.py:115-118
Get(p) ==
    /\ pc[p] = "hgetall"
    /\ LET result == get(hashes[get_obj_key(call[p].id)])
       IN  loc' = [loc EXCEPT ![p] = Did([@ EXCEPT !.ret =
                     IF result.isNone THEN RNone ELSE RDict(result.d)], "hgetall")]
    /\ pc' = [pc EXCEPT ![p] = "done"]
    /\ UNCHANGED <<hashes, zsets, lru, clock, call, sent, created, lastFwd, base, quiet>>

\* the offset of the list call p runs: the one passed, or the i of its search
\* (views.py:174)
ListOffset(p) == IF call[p].op = "search" THEN loc[p].i ELSE call[p].offset

\* where p goes on when its list returns: into the search that called it, or back
\* to its caller
ListReturn(p) == IF call[p].op = "search" THEN "search_chunk" ELSE "done"

\* a list that takes the ascending range for desc and the descending one otherwise
ListRangeSwapped(p) ==
    /\ pc[p] = "list_range"
    /\ LET key == KeyOf(p)
           offset == call[p].offset
           limit == call[p].limit
           id_list == IF call[p].desc
                      THEN zrange(zsets[key], offset, offset + limit)
                      ELSE zrevrange(zsets[key], offset, offset + limit)
       IN  /\ loc' = [loc EXCEPT ![p] =
                         Did([@ EXCEPT !.key = key, !.ids = id_list],
                             IF call[p].desc THEN "zrevrange" ELSE "zrange")]
           /\ pc' = [pc EXCEPT ![p] = IF id_list = <<>> THEN "list_exists" ELSE "list_map"]
    /\ UNCHANGED <<hashes, zsets, lru, clock, call, sent, created, lastFwd, base, quiet>>

\* views.py:141-149
ListRange(p) ==
    /\ pc[p] = "list_range"
    /\ LET key == KeyOf(p)
           offset == ListOffset(p)
           limit == call[p].limit
           id_list == IF call[p].desc
                      THEN zrevrange(zsets[key], offset, offset + limit)
                      ELSE zrange(zsets[key], offset, offset + limit)
       IN  /\ loc' = [loc EXCEPT ![p] =
                         Did([@ EXCEPT !.key = key, !.ids = id_list],
                             IF call[p].desc THEN "zrevrange" ELSE "zrange")]
           /\ pc' = [pc EXCEPT ![p] = IF id_list = <<>> THEN "list_exists" ELSE "list_map"]
    /\ UNCHANGED <<hashes, zsets, lru, clock, call, sent, created, lastFwd, base, quiet>>

\* a list that answers an empty window with an empty sequence, whatever the key
ListExistsEmpty(p) ==
    /\ pc[p] = "list_exists"
    /\ loc' = [loc EXCEPT ![p] = Did([@ EXCEPT !.ret = RList(<<>>)], "exists")]
    /\ pc' = [pc EXCEPT ![p] = "done"]
    /\ UNCHANGED <<hashes, zsets, lru, clock, call, sent, created, lastFwd, base, quiet>>

\* views.py:150-152
ListExists(p) ==
    /\ pc[p] = "list_exists"
    /\ loc' = [loc EXCEPT ![p] = Did([@ EXCEPT !.ret =
                  IF ~exists(zsets[loc[p].key]) THEN RNone ELSE RList(<<>>)], "exists")]
    /\ pc' = [pc EXCEPT ![p] = ListReturn(p)]
    /\ UNCHANGED <<hashes, zsets, lru, clock, call, sent, created, lastFwd, base, quiet>>

\* filter(bool, seq) over dicts: the empty ones are dropped
RECURSIVE FilterBool(_)
FilterBool(seq) ==
    IF seq = <<>> THEN <<>>
    ELSE (IF Head(seq) = <<>> THEN <<>> ELSE <<Head(seq)>>) \o FilterBool(Tail(seq))

\* a list that returns the hash of every id of the window, empty or not
ListMapUnfiltered(p) ==
    /\ pc[p] = "list_map"
    /\ LET id_list == loc[p].ids
       IN  loc' = [loc EXCEPT ![p] = Did([@ EXCEPT !.ret =
                     RList([n \in DOMAIN id_list |-> hashes[get_obj_key(id_list[n])]])],
                     "map_hgetall")]
    /\ pc' = [pc EXCEPT ![p] = "done"]
    /\ UNCHANGED <<hashes, zsets, lru, clock, call, sent, created, lastFwd, base, quiet>>

\* views.py:154-162, the hashes of the ids are read in one pipelined round trip;
\* obj_cache is never empty here, so the comprehension keeps every id
ListMap(p) ==
    /\ pc[p] = "list_map"
    /\ LET id_list == loc[p].ids
           obj_cache == [i \in {id_list[n] : n \in DOMAIN id_list} |->
                             hashes[get_obj_key(i)]]
           results == FilterBool([n \in DOMAIN id_list |-> obj_cache[id_list[n]]])
       IN  loc' = [loc EXCEPT ![p] = Did([@ EXCEPT !.ret = RList(results)], "map_hgetall")]
    /\ pc' = [pc EXCEPT ![p] = ListReturn(p)]
    /\ UNCHANGED <<hashes, zsets, lru, clock, call, sent, created, lastFwd, base, quiet>>

-----------------------------------------------------------------------------
(* View.search, views.py:164-187 *)

\* the number of rows at which a search stops asking for more, views.py:173
ScanCap == 1000

\* the characters of the strings of the model, and the longest string
Alphabet == {"a", "A", "b", " "}
TextLen == 3
Texts == UNION {[1 .. n -> Alphabet] : n \in 0 .. TextLen}

\* the characters of the string s
Chars(s) == CHOOSE t \in Texts : Join("", t) = s

\* str.lower
Lower(t) == [n \in DOMAIN t |-> IF t[n] = "A" THEN "a" ELSE t[n]]

\* set(t.split(' ')): the pieces of t between one space, or one end of t, and the
\* next; a piece between two adjacent spaces is the empty string
Split(t) ==
    LET cuts == {0, Len(t) + 1} \cup {n \in DOMAIN t : t[n] = " "}
    IN  {SubSeq(t, c[1] + 1, c[2] - 1) :
            c \in {x \in cuts \X cuts :
                      x[1] < x[2] /\ ~\E y \in cuts : x[1] < y /\ y < x[2]}}

\* views.py:172 and 179
Tokens(s) == Split(Lower(Chars(s)))

\* views.py:173, the test of the while loop (and 187 when it fails)
SearchLoop(p) ==
    /\ pc[p] = "search_loop"
    /\ IF loc[p].i < ScanCap /\ loc[p].n < call[p].limit
       THEN /\ pc' = [pc EXCEPT ![p] = "list_range"]
            /\ UNCHANGED loc
       ELSE /\ pc' = [pc EXCEPT ![p] = "done"]
            /\ loc' = [loc EXCEPT ![p].ret = RList(loc[p].results)]
    /\ UNCHANGED <<hashes, zsets, lru, clock, call, sent, created, lastFwd, base, quiet>>

\* a search that moves on by limit rows after a chunk, whatever the chunk held
SearchChunkByLimit(p) ==
    /\ pc[p] = "search_chunk"
    /\ LET chunk == IF loc[p].ret.k = "list" THEN loc[p].ret.l ELSE <<>>
           words == Tokens(call[p].query)
           Match(obj) == Tokens(obj[call[p].field].s) \cap words # {}
           found == SelectSeq(chunk, Match)
           n == loc[p].n + Len(found)
           results == loc[p].results \o found
       IN  IF chunk = <<>>
           THEN /\ pc' = [pc EXCEPT ![p] = "done"]
                /\ loc' = [loc EXCEPT ![p].ret = RList(loc[p].results)]
           ELSE /\ pc' = [pc EXCEPT ![p] = IF n > call[p].limit THEN "done"
                                           ELSE "search_loop"]
                /\ loc' = [loc EXCEPT ![p].i = @ + call[p].limit, ![p].n = n,
                                      ![p].results = results,
                                      ![p].ret = IF n > call[p].limit THEN RList(results)
                                                 ELSE RNone]
    /\ UNCHANGED <<hashes, zsets, lru, clock, call, sent, created, lastFwd, base, quiet>>

\* views.py:175-187, the chunk that list has returned is gone through; an object
\* without the field raises KeyError
SearchChunk(p) ==
    /\ pc[p] = "search_chunk"
    /\ LET chunk == IF loc[p].ret.k = "list" THEN loc[p].ret.l ELSE <<>>
           field == call[p].field
           words == Tokens(call[p].query)
           Match(obj) == Tokens(obj[field].s) \cap words # {}
           found == SelectSeq(chunk, Match)
           i == loc[p].i + Len(chunk)
           n == loc[p].n + Len(found)
           results == loc[p].results \o found
       IN  IF chunk = <<>>
           THEN /\ pc' = [pc EXCEPT ![p] = "done"]
                /\ loc' = [loc EXCEPT ![p].ret = RList(loc[p].results)]
           ELSE IF \E k \in DOMAIN chunk : field \notin DOMAIN chunk[k]
           THEN /\ pc' = [pc EXCEPT ![p] = "done"]
                /\ loc' = [loc EXCEPT ![p].err = "KeyError", ![p].ret = RNone]
           ELSE /\ pc' = [pc EXCEPT ![p] = IF n > call[p].limit THEN "done"
                                           ELSE "search_loop"]
                /\ loc' = [loc EXCEPT ![p].i = i, ![p].n = n, ![p].results = results,
                                      ![p].ret = IF n > call[p].limit THEN RList(results)
                                                 ELSE RNone]
    /\ UNCHANGED <<hashes, zsets, lru, clock, call, sent, created, lastFwd, base, quiet>>

-----------------------------------------------------------------------------
(* The universe of the model *)

Ids == 1 .. MaxId

\* (_key, kwargs) of the calls
ViewArgs ==
    { [kb |-> NoKey, kw |-> <<>>],
      [kb |-> NoKey, kw |-> << <<"category", PyStr("tech")>> >>] }

ViewKeys == {get_key(a.kb, a.kw) : a \in ViewArgs}
ObjKeys == {get_obj_key(i) : i \in Ids}
Channels == {get_channel_key(k) : k \in ViewKeys}

\* serialized payloads handed to Publisher.publish directly
Payloads == {Event(1, PyNone), Event(2, PyNone)}

\* the state after construction: an empty store, an empty debounce cache
InitStore ==
    /\ hashes = [k \in ObjKeys |-> <<>>]
    /\ zsets = [k \in ViewKeys |-> <<>>]
    /\ created = {}
    /\ base = Nil

InitCallers ==
    /\ pc = [p \in Procs |-> "idle"]
    /\ call = [p \in Procs |-> NoCall]
    /\ loc = [p \in Procs |-> NoLoc]
    /\ sent = [p \in Procs |-> <<>>]

-----------------------------------------------------------------------------
(* SpecPub: one caller of Publisher.publish, while time passes and the      *)
(* debounce cache evicts                                                    *)

InitPub ==
    /\ InitStore
    /\ InitCallers
    /\ lru = [k \in Channels |-> Nil]
    /\ lastFwd = [k \in Channels |-> Nil]
    /\ quiet = [k \in Channels |-> Nil]
    /\ clock = 1

NextPub ==
    \/ Tick
    \/ \E k \in Channels : Evict(k)
    \/ \E k \in Channels, v \in Payloads : Begin(1, CallPublish(k, v))
    \/ PubGet(1)
    \/ PubPut(1)
    \/ PubSend(1)
    \/ Fail(1)
    \/ Return(1)

SpecPub == InitPub /\ [][NextPub]_vars

\* a call of Publisher.publish by p has returned (it did not raise)
PublishReturned(p) == pc[p] = "done" /\ call[p].op = "publish" /\ loc[p].err = ""

\* C1: two publish calls on one key whose call times are within the cooldown
\* of each other, with no eviction of the key in between, are never both
\* forwarded to the publish primitive.
C1_Debounce ==
    \A p \in Procs :
        (PublishReturned(p) /\ loc[p].published = 1 /\ loc[p].prevFwd # Nil)
            => loc[p].now - loc[p].prevFwd > Cooldown

\* C7: publish returns false, forwards nothing and leaves the debounce entry as it
\* was exactly when a prior timestamp exists and prior + 3 < now; in every other
\* case it records now, forwards (key, value) exactly once and returns true.
C7_PublishOutcome ==
    \A p \in Procs :
        PublishReturned(p) =>
            IF loc[p].val # Nil /\ loc[p].val + Cooldown < loc[p].now
            THEN /\ loc[p].ret = RBool(FALSE)
                 /\ sent[p] = <<>>
                 /\ lru[call[p].key] = loc[p].val
            ELSE /\ loc[p].ret = RBool(TRUE)
                 /\ sent[p] = <<[chan |-> call[p].key, msg |-> call[p].value]>>
                 /\ lru[call[p].key] = loc[p].now

\* C7 witness: a publish was dropped because the entry of its key was stale
C7_Witness ==
    \E p \in Procs :
        /\ PublishReturned(p)
        /\ loc[p].val # Nil
        /\ loc[p].val + Cooldown < loc[p].now
        /\ loc[p].ret = RBool(FALSE)

-----------------------------------------------------------------------------
(* SpecAdd: one caller runs the operations of the View on one object and    *)
(* one view, every call to the store may fail                               *)

\* objects a caller passes: two versions of object i with different fields
Titled(i) == [f \in {"id", "title"} |-> IF f = "id" THEN PyInt(i) ELSE PyStr("a")]
Counted(i) == [f \in {"id", "n"} |-> PyInt(IF f = "id" THEN i ELSE 1)]
Objects(i) == {Titled(i), Counted(i)}

Scores == {1, 2}

\* the debounce cache of a Publisher that has been running: a channel has no
\* entry, or one left by a forward at time 1
InitView ==
    /\ InitStore
    /\ InitCallers
    /\ clock = MaxTime
    /\ lru \in [Channels -> {Nil, 1}]
    /\ lastFwd = lru
    /\ quiet = [k \in Channels |-> Nil]

\* the calls to the store, to the debounce cache and to the publish primitive that
\* caller p makes inside the operation it runs
ViewStep(p) ==
    \/ AddHmset(p)
    \/ Zadd(p)
    \/ Zincrby(p)
    \/ SetGet(p)
    \/ RemoveZrem(p)
    \/ RemoveDel(p)
    \/ RemoveFromSet(p)
    \/ IncrCounter(p)
    \/ Get(p)
    \/ PubGet(p)
    \/ PubPut(p)
    \/ PubSend(p)

AddCalls ==
    {CallAdd(d, s, NoKey, <<>>) : d \in Objects(1), s \in Scores}
    \cup {CallAddToSet(1, s, PyNone, NoKey, <<>>) : s \in Scores}
    \cup {CallIncrInSet(1, 1, PyNone, NoKey, <<>>)}
    \cup {CallAddToSet(1, 1, Dict(Counted(1)), NoKey, <<>>),
          CallIncrInSet(1, 1, Dict(Counted(1)), NoKey, <<>>)}
    \cup {CallRemove(Titled(1), NoKey, <<>>), CallRemoveFromSet(1, NoKey, <<>>)}
    \cup {CallIncrCounter(1, f, 1) : f \in {"n", "title"}}
    \cup {CallGet(1)}

NextAdd ==
    \/ \E c \in AddCalls : WithinCount(c) /\ Begin(1, c)
    \/ ViewStep(1)
    \/ Fail(1)
    \/ Return(1)
    \/ \E k \in Channels : Evict(k)

SpecAdd == InitView /\ [][NextAdd]_vars

\* an operation of the View by p has returned (it did not raise)
Returned(p, op) == pc[p] = "done" /\ call[p].op = op /\ loc[p].err = ""

\* the mapping the store keeps for the dict d: every value as its text
Stored(d) == [f \in DOMAIN d |-> ToStr(d[f])]

\* C2: after add(O, score), whatever was done to the id before, get(O.id) returns
\* exactly O's fields (each with the text of O's value): no field of an earlier
\* version of the object is left.
C2_RoundTrip ==
    \A p \in Procs :
        Returned(p, "add") =>
            get(hashes[get_obj_key(call[p].id)]) = Dict(Stored(call[p].data.d))

\* the calls the running operation of p has made so far
Made(p, what) == \E n \in DOMAIN loc[p].did : loc[p].did[n] = what

\* the object cache holds every field of the dict d under object id i
Holds(i, d) ==
    LET h == hashes[get_obj_key(i)]
    IN  \A f \in DOMAIN d : f \in DOMAIN h /\ h[f] = ToStr(d[f])

\* C8: within one add, the object-cache write precedes the view write, which
\* precedes the publish attempt; when the object-cache write fails, the error
\* propagates and the add neither modifies a view nor attempts a publish.
C8_AddOrder ==
    [][\A p \in Procs :
          (call[p].op = "add" /\ pc'[p] # pc[p]) =>
              /\ (zsets' # zsets \/ pc[p] = "pub_get" \/ lru' # lru \/ sent' # sent)
                     => Made(p, "hmset") /\ Holds(call[p].id, call[p].data.d)
              /\ (pc[p] = "pub_get" \/ lru' # lru \/ sent' # sent)
                     => /\ Made(p, "zadd")
                        /\ call[p].id \in DOMAIN zsets[KeyOf(p)]
                        /\ zsets[KeyOf(p)][call[p].id] = call[p].score
              /\ (pc[p] = "add_hmset" /\ loc'[p].err # "")
                     => /\ pc'[p] = "done"
                        /\ loc'[p].did = <<>>
                        /\ UNCHANGED <<hashes, zsets, lru, sent>>
      ]_vars

\* C8 witness: an add whose object-cache write failed has raised, having made no
\* other call
C8_Witness ==
    \E p \in Procs :
        /\ pc[p] = "done"
        /\ call[p].op = "add"
        /\ loc[p].err = "TransportError"
        /\ loc[p].did = <<>>

-----------------------------------------------------------------------------
(* SpecList: one caller adds objects 1..MaxId to one view at the scores     *)
(* 10, 20, 30, removes members again and lists the view                     *)

ListScores == {10, 20, 30}
Offsets == {0, 1}
Limits == {-1, 1, 2}

ListCalls ==
    {CallAdd(Titled(i), s, NoKey, <<>>) : i \in Ids, s \in ListScores}
    \cup {CallRemoveFromSet(i, NoKey, <<>>) : i \in Ids}
    \cup {CallList(o, l, d, NoKey, <<>>) : o \in Offsets, l \in Limits, d \in BOOLEAN}

NextList ==
    \/ \E c \in ListCalls : Begin(1, c)
    \/ AddHmset(1)
    \/ Zadd(1)
    \/ RemoveFromSet(1)
    \/ ListRange(1)
    \/ ListExists(1)
    \/ ListMap(1)
    \/ PubGet(1)
    \/ PubPut(1)
    \/ PubSend(1)
    \/ Fail(1)
    \/ Return(1)

SpecList == InitView /\ [][NextList]_vars

\* the id of a returned object
IdOf(obj) == ParseInt(obj["id"].s)

\* every member of the sorted set z has an object in the object cache
AllResolve(z) == \A m \in DOMAIN z : hashes[get_obj_key(m)] # <<>>

\* the members of z have pairwise distinct scores
DistinctScores(z) == \A m, n \in DOMAIN z : m # n => z[m] # z[n]

\* C3: list(offset, limit, desc) with limit >= 1 returns at most limit objects;
\* over ids 1, 2, 3 at the scores 10, 20, 30, list(0, 2, desc=True) returns the
\* objects of ids 3 and 2 and not the object of id 1.
C3_ListLimit ==
    \A p \in Procs :
        (Returned(p, "list") /\ call[p].limit >= 1 /\ loc[p].ret.k = "list")
            => /\ Len(loc[p].ret.l) <= call[p].limit
               /\ ( /\ zsets[KeyOf(p)] = [i \in {1, 2, 3} |-> 10 * i]
                    /\ call[p].offset = 0 /\ call[p].limit = 2 /\ call[p].desc )
                  => [n \in DOMAIN loc[p].ret.l |-> IdOf(loc[p].ret.l[n])] = <<3, 2>>

\* C4: over a view whose members have pairwise distinct scores, list(desc=True) of
\* the whole view returns every object in strictly decreasing order of its
\* current score, and list(desc=False) in strictly increasing order (the reverse).
C4_Ordering ==
    \A p \in Procs :
        LET z == zsets[KeyOf(p)]
            l == loc[p].ret.l
        IN  ( /\ Returned(p, "list")
              /\ call[p].offset = 0 /\ call[p].limit = -1
              /\ exists(z) /\ DistinctScores(z) /\ AllResolve(z) )
            => /\ loc[p].ret.k = "list"
               /\ Len(l) = Cardinality(DOMAIN z)
               /\ {IdOf(l[n]) : n \in DOMAIN l} = DOMAIN z
               /\ \A n \in DOMAIN l : l[n] = hashes[get_obj_key(IdOf(l[n]))]
               /\ \A m, n \in DOMAIN l :
                     m < n => IF call[p].desc
                              THEN z[IdOf(l[m])] > z[IdOf(l[n])]
                              ELSE z[IdOf(l[m])] < z[IdOf(l[n])]

\* C4 witness: the whole view of three objects at three scores was listed, highest
\* score first, and object 1 has the highest score
C4_Witness ==
    \E p \in Procs :
        /\ Returned(p, "list")
        /\ call[p].desc /\ call[p].offset = 0 /\ call[p].limit = -1
        /\ loc[p].ret.k = "list"
        /\ Len(loc[p].ret.l) = 3
        /\ IdOf(loc[p].ret.l[1]) = 1
        /\ DistinctScores(zsets[KeyOf(p)])

\* C5 as claimed: list() returns None exactly for a view key that was never created.
C5_NoneIffNeverCreated ==
    \A p \in Procs :
        Returned(p, "list") => (loc[p].ret = RNone <=> KeyOf(p) \notin created)

\* C5, amended: list() returns None exactly when the view key does not exist in
\* the store, which is when the view has no member (never created, or emptied
\* since); over a view that has a member, an empty window yields the empty
\* sequence.
C5_NoneIffNoKey ==
    \A p \in Procs :
        Returned(p, "list") =>
            /\ loc[p].ret = RNone <=> ~exists(zsets[KeyOf(p)])
            /\ (exists(zsets[KeyOf(p)]) /\ loc[p].ids = <<>>) => loc[p].ret = RList(<<>>)

\* C5 witness: a view that was created and has lost its last member lists as None
C5_Witness ==
    \E p \in Procs :
        /\ Returned(p, "list")
        /\ KeyOf(p) \in created
        /\ loc[p].ret = RNone

-----------------------------------------------------------------------------
(* Spec: one caller runs the operations of the View on objects 1 and 2 and  *)
(* on two views                                                             *)

ViewCalls ==
    {CallAdd(Titled(i), s, a.kb, a.kw) : i \in {1, 2}, s \in Scores, a \in ViewArgs}
    \cup {CallAddToSet(i, s, PyNone, a.kb, a.kw) : i \in {1, 2}, s \in Scores, a \in ViewArgs}
    \cup {CallRemove(Titled(i), a.kb, a.kw) : i \in {1, 2}, a \in ViewArgs}
    \cup {CallRemoveFromSet(i, a.kb, a.kw) : i \in {1, 2}, a \in ViewArgs}
    \cup {CallGet(i) : i \in {1, 2}}

InitEmpty ==
    /\ InitStore
    /\ InitCallers
    /\ clock = MaxTime
    /\ lru = [k \in Channels |-> Nil]
    /\ lastFwd = lru
    /\ quiet = [k \in Channels |-> Nil]

Next ==
    \/ \E c \in ViewCalls : Begin(1, c)
    \/ AddHmset(1)
    \/ Zadd(1)
    \/ SetGet(1)
    \/ RemoveZrem(1)
    \/ RemoveDel(1)
    \/ RemoveFromSet(1)
    \/ Get(1)
    \/ PubGet(1)
    \/ PubPut(1)
    \/ PubSend(1)
    \/ Fail(1)
    \/ Return(1)

Spec == InitEmpty /\ [][Next]_vars

C10_RemoveFromSet ==
    [][\A p \in Procs :
          (call[p].op = "remove_from_set" /\ pc'[p] # pc[p]) =>
              /\ UNCHANGED <<hashes, lru, sent>>
              /\ \A k \in ViewKeys \ {KeyOf(p)} : zsets'[k] = zsets[k]
              /\ \A m \in DOMAIN zsets[KeyOf(p)] \ {call[p].id} :
                    /\ m \in DOMAIN zsets'[KeyOf(p)]
                    /\ zsets'[KeyOf(p)][m] = zsets[KeyOf(p)][m]
              /\ DOMAIN zsets'[KeyOf(p)] \subseteq DOMAIN zsets[KeyOf(p)]
              /\ (pc'[p] = "done" /\ loc'[p].err = "")
                     => call[p].id \notin DOMAIN zsets'[KeyOf(p)]
      ]_vars

\* C10 witness: a remove_from_set has completed, the object of the id is still in
\* the object cache and another view still holds the id
C10_Witness ==
    \E p \in Procs :
        /\ Returned(p, "remove_from_set")
        /\ loc[p].did = <<"zrem">>
        /\ hashes[get_obj_key(call[p].id)] # <<>>
        /\ \E k \in ViewKeys \ {KeyOf(p)} : call[p].id \in DOMAIN zsets[k]

-----------------------------------------------------------------------------
(* SpecConc: NumProcs callers run incr_in_set(1, 1) once each on the same   *)
(* member of the same view while a reader runs get and list; every          *)
(* interleaving of their calls to the store, and every failure of a call    *)

\* the watched member and its view
Watched == 1
WatchedKey == get_key(NoKey, <<>>)

\* the score of a member of z, 0 for one that is no member (as ZINCRBY counts it)
ScoreIn(z, id) == IF id \in DOMAIN z THEN z[id] ELSE 0

\* object 1 is in the object cache; it is no member of the view yet, or a member
\* at score 1 or 2; the channel of the view has no debounce entry, or a stale one
InitConc ==
    /\ InitCallers
    /\ hashes = [k \in ObjKeys |-> IF k = get_obj_key(Watched)
                                   THEN Stored(Titled(Watched)) ELSE <<>>]
    /\ \E z \in {<<>>} \cup {[i \in {Watched} |-> s] : s \in Scores} :
          /\ zsets = [k \in ViewKeys |-> IF k = WatchedKey THEN z ELSE <<>>]
          /\ created = IF z = <<>> THEN {} ELSE {WatchedKey}
          /\ base = ScoreIn(z, Watched)
    /\ clock = MaxTime
    /\ \E t \in {Nil, 1} :
          lru = [k \in Channels |-> IF k = get_channel_key(WatchedKey) THEN t ELSE Nil]
    /\ lastFwd = lru
    /\ quiet = [k \in Channels |-> Nil]

IncrCalls == {CallIncrInSet(Watched, 1, PyNone, NoKey, <<>>)}
ReadCalls == {CallGet(Watched), CallList(0, -1, TRUE, NoKey, <<>>)}

NextConc ==
    \/ \E p \in Incrementers :
          \/ \E c \in IncrCalls : Begin(p, c)
          \/ Zincrby(p)
          \/ SetGet(p)
          \/ PubGet(p)
          \/ PubPut(p)
          \/ PubSend(p)
          \/ Fail(p)
    \/ \E c \in ReadCalls : Begin(Reader, c)
    \/ Get(Reader)
    \/ ListRange(Reader)
    \/ ListExists(Reader)
    \/ ListMap(Reader)
    \/ Fail(Reader)
    \/ Return(Reader)

SpecConc == InitConc /\ [][NextConc]_vars

\* the incr_in_set calls whose increment the store has performed
Incremented == {p \in Incrementers : call[p].op = "incr_in_set" /\ Made(p, "zincrby")}

\* C6: under every interleaving of N concurrent incr_in_set(id, 1) calls on one
\* member (and of get and list calls), the score of the member is its initial
\* score plus the number of calls whose increment was performed: when all N
\* calls have returned, it is exactly N greater; no increment is lost.
C6_NoLostUpdate ==
    /\ ScoreIn(zsets[WatchedKey], Watched) = base + Cardinality(Incremented)
    /\ (\A p \in Incrementers : Returned(p, "incr_in_set"))
           => ScoreIn(zsets[WatchedKey], Watched) = base + NumProcs

\* C6 witness: all N calls have returned, and the reader has listed the view
\* in between
C6_Witness ==
    /\ \A p \in Incrementers : Returned(p, "incr_in_set")
    /\ pc[Reader] = "done"
    /\ call[Reader].op = "list"
    /\ loc[Reader].ret.k = "list"

-----------------------------------------------------------------------------
(* SpecDangle: one caller adds objects 1..MaxId to one view, removes        *)
(* objects through another view, which leaves their ids in the first, and   *)
(* lists the first view                                                     *)

DangleCalls ==
    {CallAdd(Titled(i), s, NoKey, <<>>) : i \in Ids, s \in ListScores}
    \cup {CallRemove(Titled(i), NoKey, << <<"category", PyStr("tech")>> >>) : i \in Ids}
    \cup {CallList(o, l, d, NoKey, <<>>) : o \in Offsets, l \in {-1, 1}, d \in BOOLEAN}

NextDangle ==
    \/ \E c \in DangleCalls : Begin(1, c)
    \/ AddHmset(1)
    \/ Zadd(1)
    \/ RemoveZrem(1)
    \/ RemoveDel(1)
    \/ ListRange(1)
    \/ ListExists(1)
    \/ ListMap(1)
    \/ PubGet(1)
    \/ PubPut(1)
    \/ PubSend(1)
    \/ Return(1)

SpecDangle == InitEmpty /\ [][NextDangle]_vars

\* the ranks of the id window ids whose id has an entry in the object cache
Resolved(ids) == {n \in DOMAIN ids : hashes[get_obj_key(ids[n])] # <<>>}

\* C11: when the window of an existing view is not empty, list() returns the
\* objects of the window's ids in the order of the ids, leaving out exactly the
\* ids that have no entry in the object cache; no element of the returned
\* sequence is absent or empty.
C11_ListSkipsDangling ==
    \A p \in Procs :
        (Returned(p, "list") /\ loc[p].ids # <<>>) =>
            LET ids == loc[p].ids
                l == loc[p].ret.l
                present == Resolved(ids)
                nth(k) == CHOOSE n \in present :
                              Cardinality({m \in present : m <= n}) = k
            IN  /\ loc[p].ret.k = "list"
                /\ Len(l) = Cardinality(present)
                /\ \A k \in DOMAIN l :
                      /\ l[k] # <<>>
                      /\ l[k] = hashes[get_obj_key(ids[nth(k)])]

\* C11 witness: a window of three ids was listed, the object of the second id had
\* been removed through another view, and the objects of the first and the third
\* came back
C11_Witness ==
    \E p \in Procs :
        /\ Returned(p, "list")
        /\ Len(loc[p].ids) = 3
        /\ Resolved(loc[p].ids) = {1, 3}
        /\ loc[p].ret.k = "list"
        /\ Len(loc[p].ret.l) = 2

-----------------------------------------------------------------------------
(* SpecScan: one caller searches, with the default limit, a view that has   *)
(* somewhat fewer or somewhat more members than the search means to iterate *)

\* limit=100 of the signature, views.py:164
DefaultLimit == 100

ScanSizes == {ScanCap - DefaultLimit, ScanCap + DefaultLimit}

\* object i of the large view: a few objects are titled "a", the others "b"
ScanObject(i) ==
    [f \in {"id", "title"} |->
        IF f = "id" THEN PyInt(i) ELSE PyStr(IF i % 400 = 0 THEN "a" ELSE "b")]

\* a view of size members that all have their object, at scores that do not
\* follow the ids
InitScan ==
    /\ InitCallers
    /\ \E size \in ScanSizes :
          /\ hashes = [k \in {get_obj_key(i) : i \in 1 .. size} |->
                          Stored(ScanObject(CHOOSE i \in 1 .. size : get_obj_key(i) = k))]
          /\ zsets = [k \in ViewKeys |-> IF k = get_key(NoKey, <<>>)
                                         THEN [i \in 1 .. size |-> (i * 37) % 101]
                                         ELSE <<>>]
    /\ created = {get_key(NoKey, <<>>)}
    /\ base = Nil
    /\ clock = MaxTime
    /\ lru = [k \in Channels |-> Nil]
    /\ lastFwd = lru
    /\ quiet = [k \in Channels |-> Nil]

ScanCalls ==
    {CallSearch(q, "title", DefaultLimit, d, NoKey, <<>>) : q \in {"a", "b"}, d \in BOOLEAN}

NextScan ==
    \/ \E c \in ScanCalls : Begin(1, c)
    \/ SearchLoop(1)
    \/ ListRange(1)
    \/ ListExists(1)
    \/ ListMap(1)
    \/ SearchChunk(1)
    \/ Return(1)

SpecScan == InitScan /\ [][NextScan]_vars

\* C12: whatever the view, the query and the limit, one search() call examines
\* (tokenizes the field of) at most 1000 objects before it returns; i counts the
\* objects examined (views.py:178).
C12_ScanAtMostCap ==
    \A p \in Procs : Returned(p, "search") => loc[p].i <= ScanCap

-----------------------------------------------------------------------------
(* SpecSearch: one caller searches a view of up to MaxId members; a member  *)
(* has its object, under one of four titles, or its object has been removed *)

SearchTitles == {"a", "b", "A b", "b "}
Queries == {"a", "b A", "a "}
SearchLimits == {1, 2}

\* object i under the title t
TitledAs(i, t) == [f \in {"id", "title"} |-> IF f = "id" THEN PyInt(i) ELSE PyStr(t)]

\* what the store holds of id i: nothing, the member without its object, or the
\* member and its object
Holdings == {"none", "dangling"} \cup SearchTitles

\* the store after adds of objects at the scores 10 * id and removes of objects
\* through another view
InitSearch ==
    /\ InitCallers
    /\ \E has \in [Ids -> Holdings] :
          /\ hashes = [k \in ObjKeys |->
                          LET i == CHOOSE j \in Ids : get_obj_key(j) = k
                          IN  IF has[i] \in SearchTitles
                              THEN Stored(TitledAs(i, has[i])) ELSE <<>>]
          /\ zsets = [k \in ViewKeys |->
                         IF k = get_key(NoKey, <<>>)
                         THEN [i \in {j \in Ids : has[j] # "none"} |-> 10 * i]
                         ELSE <<>>]
    /\ created = {get_key(NoKey, <<>>)}
    /\ base = Nil
    /\ clock = MaxTime
    /\ lru = [k \in Channels |-> Nil]
    /\ lastFwd = lru
    /\ quiet = [k \in Channels |-> Nil]

SearchCalls ==
    {CallSearch(q, "title", l, d, NoKey, <<>>) :
        q \in Queries, l \in SearchLimits, d \in BOOLEAN}

NextSearch ==
    \/ \E c \in SearchCalls : Begin(1, c)
    \/ SearchLoop(1)
    \/ ListRange(1)
    \/ ListExists(1)
    \/ ListMap(1)
    \/ SearchChunk(1)
    \/ Return(1)

SpecSearch == InitSearch /\ [][NextSearch]_vars

\* w is a piece of the text t: it holds no space and lies between one space, or
\* one end of t, and the next
IsPiece(w, t) ==
    /\ \A n \in DOMAIN w : w[n] # " "
    /\ \E a \in 0 .. Len(t) :
          /\ a + Len(w) <= Len(t)
          /\ SubSeq(t, a + 1, a + Len(w)) = w
          /\ a = 0 \/ t[a] = " "
          /\ a + Len(w) = Len(t) \/ t[a + Len(w) + 1] = " "

\* the strings s and q share a token when lower-cased
SharesToken(s, q) ==
    \E w \in Texts : IsPiece(w, Lower(Chars(s))) /\ IsPiece(w, Lower(Chars(q)))

\* the members of the view of p whose object matches the query of p
Matching(p) ==
    {m \in DOMAIN zsets[KeyOf(p)] :
        LET h == hashes[get_obj_key(m)]
        IN  h # <<>> /\ SharesToken(h[call[p].field].s, call[p].query)}

\* member x comes before member y in the direction the call of p lists the view
InViewOrder(p, x, y) ==
    IF call[p].desc THEN Before(zsets[KeyOf(p)], y, x) ELSE Before(zsets[KeyOf(p)], x, y)

C19_NoDuplicates ==
    \A p \in Procs :
        (Returned(p, "search") /\ call[p].limit >= 1) =>
            \A j, k \in DOMAIN loc[p].ret.l : j # k => loc[p].ret.l[j] # loc[p].ret.l[k]

-----------------------------------------------------------------------------
(* SpecAdd, the publish of add_to_set and incr_in_set *)

\* the call by which an operation changes the sorted set
Mutation(op) == IF op = "incr_in_set" THEN "zincrby" ELSE "zadd"

\* the ranks at which the call what is on the record of the calls of p
CallsOf(p, what) == {n \in DOMAIN loc[p].did : loc[p].did[n] = what}

\* the add_to_set or incr_in_set of p is over, returned or raised, and its change
\* of the sorted set was made
MutatedAndOver(p) ==
    /\ pc[p] = "done"
    /\ call[p].op \in {"add_to_set", "incr_in_set"}
    /\ Made(p, Mutation(call[p].op))

\* Publisher.publish was called once by p, after the change of the sorted set, on
\* the channel of the view, with an "add" event of the data passed or else of the
\* object the cache holds
PublishedOnce(p) ==
    /\ Cardinality(CallsOf(p, "lru_get")) = 1
    /\ \A m \in CallsOf(p, Mutation(call[p].op)), n \in CallsOf(p, "lru_get") : m < n
    /\ loc[p].chan = get_channel_key(KeyOf(p))
    /\ loc[p].msg.event = "add"
    /\ loc[p].msg.data = IF call[p].data.isNone
                         THEN get(hashes[get_obj_key(call[p].id)])
                         ELSE call[p].data

-----------------------------------------------------------------------------
(* SpecConc, the score of the event of incr_in_set *)

\* C15: the event that incr_in_set(id, delta) hands to the Publisher carries the
\* score its own atomic increment returned, the score of the member just before
\* that increment plus delta, and not the delta; also while other incr_in_set
\* calls run on the same member.
C15_EventCarriesResult ==
    [][\A p \in Incrementers :
          (call[p].op = "incr_in_set" /\ pc'[p] # pc[p]) =>
              /\ (pc[p] = "zincrby" /\ loc'[p].err = "")
                     => loc'[p].score =
                            ScoreIn(zsets[KeyOf(p)], call[p].id) + call[p].score
              /\ pc[p] # "zincrby" => loc'[p].score = loc[p].score
              /\ loc'[p].msg # NoMsg => loc'[p].msg.score = loc'[p].score
              /\ sent'[p] # sent[p]
                     => /\ Len(sent'[p]) = 1
                        /\ sent'[p][1].msg.event = "add"
                        /\ sent'[p][1].msg.score = loc[p].score
      ]_vars

\* C15 witness: the member had a score, all N calls have returned, their events
\* carry the N scores that follow the initial one, and none carries the delta
C15_Witness ==
    /\ base >= 1
    /\ \A p \in Incrementers :
          /\ Returned(p, "incr_in_set")
          /\ loc[p].published = 1
          /\ sent[p] # <<>>
          /\ sent[p][1].msg.score # call[p].score
    /\ {sent[p][1].msg.score : p \in Incrementers} = (base + 1) .. (base + NumProcs)

-----------------------------------------------------------------------------
(* SpecIdem: one caller runs the operations of the View on one object and   *)
(* one view and, at some point, the operation that has just returned once   *)
(* more with the same arguments                                             *)

\* the operation of p has returned; its caller calls it again with the same
\* arguments, and the store is remembered as the first call has left it
Again(p) ==
    /\ pc[p] = "done"
    /\ loc[p].err = ""
    /\ ~loc[p].again
    /\ WithinCount(call[p])
    /\ pc' = [pc EXCEPT ![p] = Entry(call[p].op)]
    /\ loc' = [loc EXCEPT ![p] = [NoLoc EXCEPT !.id = call[p].id, !.data = call[p].data,
                                                !.again = TRUE]]
    /\ sent' = [sent EXCEPT ![p] = <<>>]
    /\ base' = [hashes |-> hashes, zsets |-> zsets]
    /\ UNCHANGED <<hashes, zsets, lru, clock, call, created, lastFwd, quiet>>

NextIdem ==
    \/ \E c \in AddCalls : WithinCount(c) /\ Begin(1, c)
    \/ ViewStep(1)
    \/ ~loc[1].again /\ Return(1)
    \/ Again(1)

SpecIdem == InitView /\ [][NextIdem]_vars

\* the second of two equal calls in a row by p has returned
ReturnedAgain(p, op) == Returned(p, op) /\ loc[p].again

\* C16: from any state of the store, add(O, s) and add_to_set(id, s) applied
\* twice in a row with the same arguments leave the object cache and every view
\* as one application leaves them; the second incr_in_set and the second
\* incr_counter with an amount that is not 0 change the score, the field, again.
C16_Idempotence ==
    \A p \in Procs :
        /\ (ReturnedAgain(p, "add") \/ ReturnedAgain(p, "add_to_set"))
               => hashes = base.hashes /\ zsets = base.zsets
        /\ (ReturnedAgain(p, "incr_in_set") /\ call[p].score # 0)
               => /\ zsets[KeyOf(p)][call[p].id] =
                         base.zsets[KeyOf(p)][call[p].id] + call[p].score
                  /\ zsets # base.zsets
        /\ (ReturnedAgain(p, "incr_counter") /\ call[p].amount # 0)
               => hashes # base.hashes

\* C16 witness: the second of two equal adds in a row has returned, having
\* written the object and the member once more
C16_Witness ==
    \E p \in Procs :
        /\ ReturnedAgain(p, "add")
        /\ Made(p, "hmset")
        /\ Made(p, "zadd")
        /\ hashes = base.hashes
        /\ zsets = base.zsets

-----------------------------------------------------------------------------
(* SpecKey: NumProcs callers ask for view keys, passing the same filters in *)
(* different orders, while another caller adds an object, which changes the *)
(* store and the debounce cache                                             *)

KeyCallers == 1 .. NumProcs

\* the filters of the model, and the orders in which a call can pass some of them
ByAuthor == <<"author", PyInt(1)>>
ByCategory == <<"category", PyStr("tech")>>
FilterOrders ==
    {<<>>, <<ByAuthor>>, <<ByCategory>>, <<ByAuthor, ByCategory>>, <<ByCategory, ByAuthor>>}

KeyCalls == {CallGetKey(kb, kw) : kb \in {NoKey, "hot"}, kw \in FilterOrders}

NextKey ==
    \/ \E p \in KeyCallers :
          \/ \E c \in KeyCalls : Begin(p, c)
          \/ GetKey(p)
          \/ Return(p)
    \/ Begin(Reader, CallAdd(Titled(1), 1, NoKey, <<>>))
    \/ AddHmset(Reader)
    \/ Zadd(Reader)
    \/ PubGet(Reader)
    \/ PubPut(Reader)
    \/ PubSend(Reader)
    \/ Return(Reader)

SpecKey == InitEmpty /\ [][NextKey]_vars

\* the filter pairs of a call, whatever their order
FilterSet(kwseq) == {kwseq[i] : i \in DOMAIN kwseq}

\* C17: get_key is a pure function of (namespace, suffix, filter set) that does
\* not depend on the order of the filters: the key a call computes is the key
\* every earlier call with the same suffix and the same filter pairs, in whatever
\* order, has computed, whatever has happened to the store and to the Publisher
\* in between; and computing it changes neither.
C17_KeyDeterminism ==
    [][\A p \in KeyCallers :
          (pc[p] = "get_key" /\ pc'[p] = "done") =>
              /\ UNCHANGED <<hashes, zsets, lru, sent>>
              /\ loc'[p].ret.k = "str"
              /\ \A q \in KeyCallers \ {p} :
                    ( /\ Returned(q, "get_key")
                      /\ call[q].keybase = call[p].keybase
                      /\ FilterSet(call[q].kwargs) = FilterSet(call[p].kwargs) )
                        => loc'[p].ret = loc[q].ret
      ]_vars

\* C17 witness: two calls that passed the same two filters in opposite orders have
\* computed the same key, one before and one after the store and the debounce
\* cache took the added object
C17_Witness ==
    \E p, q \in KeyCallers :
        /\ Returned(p, "get_key")
        /\ Returned(q, "get_key")
        /\ call[p].kwargs = <<ByAuthor, ByCategory>>
        /\ call[q].kwargs = <<ByCategory, ByAuthor>>
        /\ call[p].keybase = call[q].keybase
        /\ loc[p].ret = loc[q].ret
        /\ loc[p].ret = RStr("view:1:posts:author=1&category=tech")
        /\ Returned(Reader, "add")

-----------------------------------------------------------------------------
(* SpecPub, the keys on which a publish has been suppressed *)

\* C18: once a publish on key K has been suppressed, the debounce entry of K is
\* left at its old timestamp, and as time does not go back every later publish
\* on K is suppressed too while that entry stays in the cache: a key that has
\* been quiet for more than 3 time units is not forwarded again until its entry
\* is evicted.
C18_QuietStaysQuiet ==
    \A k \in Channels :
        quiet[k] # Nil =>
            /\ lru[k] # Nil
            /\ lru[k] + Cooldown < quiet[k]
            /\ quiet[k] <= clock
            /\ \A p \in Procs :
                  /\ loc[p].chan = k => pc[p] \notin {"pub_put", "pub_send"}
                  /\ (PublishReturned(p) /\ call[p].key = k)
                         => loc[p].ret = RBool(FALSE) /\ sent[p] = <<>>

\* C18 witness: a publish on a key was suppressed, and a later publish on the key,
\* at a later time, has been suppressed too
C18_Witness ==
    \E p \in Procs :
        /\ PublishReturned(p)
        /\ loc[p].ret = RBool(FALSE)
        /\ quiet[call[p].key] # Nil
        /\ loc[p].now > quiet[call[p].key]

-----------------------------------------------------------------------------
(* SpecAdd, a forward that fails *)

\* the operation of p has raised TransportError at the forward of its publish
ForwardFailed(p) ==
    /\ pc[p] = "done"
    /\ loc[p].err = "TransportError"
    /\ loc[p].did # <<>>
    /\ loc[p].did[Len(loc[p].did)] = "lru_put"

\* C20: publish records the debounce timestamp of the key before it forwards:
\* when the forward fails with TransportError, the error reaches the caller, the
\* entry of the key is nonetheless now, nothing was forwarded, and the change of
\* the sorted set by the add_to_set or incr_in_set that called stays applied.
C20_FailedForward ==
    \A p \in Procs :
        ForwardFailed(p) =>
            /\ lru[loc[p].chan] = loc[p].now
            /\ sent[p] = <<>>
            /\ loc[p].ret = RNone
            /\ call[p].op \in {"add", "add_to_set", "incr_in_set"}
                   => /\ Made(p, Mutation(call[p].op))
                      /\ call[p].id \in DOMAIN zsets[KeyOf(p)]
                      /\ zsets[KeyOf(p)][call[p].id] = loc[p].score

\* C20 witness: the forward of an incr_in_set on a channel that had no entry has
\* failed; the channel has an entry now and the member has its new score
C20_Witness ==
    \E p \in Procs :
        /\ ForwardFailed(p)
        /\ call[p].op = "incr_in_set"
        /\ loc[p].val = Nil
        /\ lru[loc[p].chan] = clock
        /\ zsets[KeyOf(p)][call[p].id] = loc[p].score

====
